---- MODULE Spec2Model ----
(***************************************************************************)
(* Diagonal Sudoku solver (solution.py): constraint propagation            *)
(* (eliminate, only_choice, naked_twins) driven to a stall by              *)
(* reduce_puzzle, and depth-first search on top of it.                     *)
(*                                                                         *)
(* A Python string is a sequence of one-character strings, a dict of       *)
(* box -> string is a function on the box names, and a dict object lives   *)
(* in `heap` so that aliasing between a caller's and a callee's dict is    *)
(* visible.                                                                *)
(***************************************************************************)
EXTENDS Integers, Sequences, FiniteSets, TLC

(***************************************************************************)
(* Board constants                                                         *)
(***************************************************************************)
DIGITS == <<"1", "2", "3", "4", "5", "6", "7", "8", "9">>
COLS == <<"1", "2", "3", "4", "5", "6", "7", "8", "9">>
ROWS == <<"A", "B", "C", "D", "E", "F", "G", "H", "I">>

BoxSide == 3
GridLen == 81

\* the elements of a list, as a set
ToSet(s) == {s[i] : i \in 1..Len(s)}

\* x in s, for a list or a string s of single characters
In(x, s) == \E i \in 1..Len(s) : s[i] = x

\* partition = lambda n, coll: [coll[i:i + n] for i in range(0, len(coll), n)]
partition(n, coll) ==
    [k \in 1..((Len(coll) + n - 1) \div n) |->
        SubSeq(coll, (k - 1) * n + 1,
               IF k * n <= Len(coll) THEN k * n ELSE Len(coll))]

\* cross = lambda a, b: [s + t for s in a for t in b]
cross(a, b) ==
    [k \in 1..(Len(a) * Len(b)) |->
        a[((k - 1) \div Len(b)) + 1] \o b[((k - 1) % Len(b)) + 1]]

\* [r + c for i, r in enumerate(ROWS, 1) for j, c in enumerate(COLS, 1) if P(i, j)]
Diagonal(P(_, _)) ==
    LET RowOf(k) == ((k - 1) \div Len(COLS)) + 1
        ColOf(k) == ((k - 1) % Len(COLS)) + 1
        kept == SelectSeq([k \in 1..(Len(ROWS) * Len(COLS)) |-> k],
                          LAMBDA k : P(RowOf(k), ColOf(k)))
    IN  [n \in 1..Len(kept) |-> ROWS[RowOf(kept[n])] \o COLS[ColOf(kept[n])]]

DUNITS == <<Diagonal(LAMBDA i, j : i + j = 10),
            Diagonal(LAMBDA i, j : i = j)>>

SUNITS ==
    LET rss == partition(BoxSide, ROWS)
        css == partition(BoxSide, COLS)
    IN  [k \in 1..(Len(rss) * Len(css)) |->
            cross(rss[((k - 1) \div Len(css)) + 1],
                  css[((k - 1) % Len(css)) + 1])]

RUNITS == [i \in 1..Len(ROWS) |-> cross(<<ROWS[i]>>, COLS)]
CUNITS == [j \in 1..Len(COLS) |-> cross(ROWS, <<COLS[j]>>)]
BOXES == cross(ROWS, COLS)

UNITLIST == DUNITS \o SUNITS \o RUNITS \o CUNITS

BoxSet == ToSet(BOXES)

UNITS == [box \in BoxSet |-> SelectSeq(UNITLIST, LAMBDA u : In(box, u))]

PEERS ==
    [box \in BoxSet |->
        UNION {ToSet(UNITS[box][k]) : k \in 1..Len(UNITS[box])} \ {box}]

\* the order in which `for peer in PEERS[cell]` visits the set: the order of
\* BOXES.  CPython's order depends on the string hashes of the run; the
\* dict that eliminate leaves is the same for every order, because the
\* peers of one cell are distinct boxes and each is written once.
PeerList == [box \in BoxSet |-> SelectSeq(BOXES, LAMBDA b : b \in PEERS[box])]

(***************************************************************************)
(* Strings and the values dict                                             *)
(***************************************************************************)
\* s.replace(d, '') for a one-character d
Replace(s, d) == SelectSeq(s, LAMBDA x : x # d)

\* The global list `assignments` is only appended to, and nothing in
\* solve reads it: it is kept as its length and its last LogWindow elements.
LogWindow == 1

EmptyList == [len |-> 0, tail |-> << >>]

\* assignments.append(x)
ListAppend(list, x) ==
    [len |-> list.len + 1,
     tail |-> IF Len(list.tail) < LogWindow THEN Append(list.tail, x)
              ELSE SubSeq(Append(list.tail, x), 2, Len(list.tail) + 1)]

\* assign_value: st is the pair of the dict being updated and the global
\* list `assignments`; the dict is written, and a copy of it is appended
\* whenever the value written has length 1.
assign_value(st, box, value) ==
    LET written == [st.values EXCEPT ![box] = value]
    IN  [values |-> written,
         log |-> IF Len(value) = 1 THEN ListAppend(st.log, written)
                 ELSE st.log]

\* grid_values: '.' becomes DIGITS, any other character is kept; the two
\* asserts decide whether the grid is accepted.
GridChars(grid) ==
    [k \in 1..Len(grid) |-> IF grid[k] = "." THEN DIGITS ELSE <<grid[k]>>]

GridAccepted(grid) ==
    /\ Len(grid) = GridLen
    /\ \A k \in 1..Len(grid) : grid[k] = "." \/ In(grid[k], DIGITS)

\* dict(zip(BOXES, values))
BoxIndex(box) == CHOOSE k \in 1..Len(BOXES) : BOXES[k] = box

grid_values(grid) ==
    LET chars == GridChars(grid)
    IN  [box \in BoxSet |-> chars[BoxIndex(box)]]

(***************************************************************************)
(* for i in lo..hi: st = Body(st, i).  The iterations lo..hi are the       *)
(* iterations lo..mid followed by the iterations mid+1..hi, which start    *)
(* from the state the first half has left.                                 *)
(***************************************************************************)
RECURSIVE Loop(_, _, _, _)
Loop(Body(_, _), st, lo, hi) ==
    IF lo > hi THEN st
    ELSE IF lo = hi THEN Body(st, lo)
    ELSE LET mid == (lo + hi) \div 2
         IN  CHOOSE end \in {Loop(Body, half, mid + 1, hi) :
                                half \in {Loop(Body, st, lo, mid)}} : TRUE

(***************************************************************************)
(* eliminate                                                               *)
(***************************************************************************)
\* eliminate that leaves the peers alone that hold a single digit
EliminateCellUnsolved(st, cell, digit) ==
    LET peers == SelectSeq(PeerList[cell], LAMBDA b : Len(st.values[b]) # 1)
    IN  Loop(LAMBDA s, i :
                assign_value(s, peers[i], Replace(s.values[peers[i]], digit)),
             st, 1, Len(peers))

\* for peer in PEERS[cell]: assign_value(values, peer, values[peer].replace(digit, ''))
EliminateCell(st, cell, digit) ==
    LET peers == PeerList[cell]
    IN  Loop(LAMBDA s, i :
                assign_value(s, peers[i], Replace(s.values[peers[i]], digit)),
             st, 1, Len(peers))

\* solved is built before the loop, in the order of the dict, and keeps the
\* digits the boxes had on entry
eliminate(st) ==
    LET entry == st.values
        solved == SelectSeq(BOXES, LAMBDA b : Len(entry[b]) = 1)
    IN  Loop(LAMBDA s, i : EliminateCell(s, solved[i], entry[solved[i]][1]),
             st, 1, Len(solved))

(***************************************************************************)
(* only_choice                                                             *)
(***************************************************************************)
\* only_choice that writes back the value the box already has
OnlyChoiceDigitKeeps(st, unit, digit) ==
    LET only == SelectSeq(unit, LAMBDA box : In(digit, st.values[box]))
    IN  IF Len(only) = 1 THEN assign_value(st, only[1], st.values[only[1]])
        ELSE st

\* only_choice that assigns the digit to the first box of the unit
OnlyChoiceDigitFirstBox(st, unit, digit) ==
    LET only == SelectSeq(unit, LAMBDA box : In(digit, st.values[box]))
    IN  IF Len(only) = 1 THEN assign_value(st, unit[1], <<digit>>) ELSE st

\* the body of `for digit in DIGITS`, lines 159-162
OnlyChoiceDigit(st, unit, digit) ==
    LET only == SelectSeq(unit, LAMBDA box : In(digit, st.values[box]))
    IN  IF Len(only) = 1 THEN assign_value(st, only[1], <<digit>>) ELSE st

\* for digit in DIGITS
OnlyChoiceUnit(st, unit) ==
    Loop(LAMBDA s, k : OnlyChoiceDigit(s, unit, DIGITS[k]), st, 1, Len(DIGITS))

\* for unit in UNITLIST
only_choice(st) ==
    Loop(LAMBDA s, u : OnlyChoiceUnit(s, UNITLIST[u]), st, 1, Len(UNITLIST))

(***************************************************************************)
(* naked_twins                                                             *)
(***************************************************************************)
\* twins of a unit: the two-digit values, as sets, held by exactly two boxes
Twins(values, unit) ==
    LET pairs == {box \in ToSet(unit) : Len(values[box]) = 2}
    IN  {pair \in {ToSet(values[box]) : box \in pairs} :
            Cardinality({box \in pairs : ToSet(values[box]) = pair}) = 2}

\* naked_twins that skips every box of two digits, twin or not
TwinsBoxSkipsPairs(st, box, twins) ==
    LET digits == st.values[box]
    IN  IF Len(digits) = 1 \/ Len(digits) = 2
        THEN st
        ELSE assign_value(st, box,
                SelectSeq(digits, LAMBDA x : x \notin UNION twins))

\* the body of `for box in unit`, lines 66-79
TwinsBox(st, box, twins) ==
    LET digits == st.values[box]
    IN  IF Len(digits) = 1 \/ ToSet(digits) \in twins
        THEN st
        ELSE assign_value(st, box,
                SelectSeq(digits, LAMBDA x : x \notin UNION twins))

\* the body of `for unit in UNITLIST`
NakedTwinsUnit(st, unit) ==
    LET twins == Twins(st.values, unit)
    IN  IF twins = {} THEN st
        ELSE Loop(LAMBDA s, i : TwinsBox(s, unit[i], twins), st, 1, Len(unit))

naked_twins(st) ==
    Loop(LAMBDA s, u : NakedTwinsUnit(s, UNITLIST[u]), st, 1, Len(UNITLIST))

\* the number of boxes whose value has length n
CountLen(values, n) == Cardinality({box \in BoxSet : Len(values[box]) = n})

(***************************************************************************)
(* reduce_puzzle                                                           *)
(***************************************************************************)
\* line 197: a box with zero available values
SanityFailsNever(values) == FALSE

SanityFails(values) == CountLen(values, 0) # 0

\* lines 182-188: one iteration of the three strategies
Pass(st) == naked_twins(only_choice(eliminate(st)))

\* the whole call: result is "False", or "values" with the dict it returns
RECURSIVE reduce_puzzle(_)
reduce_puzzle(st) ==
    LET solved_values_before == CountLen(st.values, 1)
        after == Pass(st)
        stalled == solved_values_before = CountLen(after.values, 1)
    IN  IF SanityFails(after.values)
        THEN [result |-> "False", values |-> after.values, log |-> after.log]
        ELSE IF stalled
        THEN [result |-> "values", values |-> after.values, log |-> after.log]
        ELSE reduce_puzzle(after)

(***************************************************************************)
(* Python values: a dict object on the heap, False, or None                *)
(***************************************************************************)
Dict(id) == [kind |-> "dict", id |-> id]
False == [kind |-> "False", id |-> 0]
None == [kind |-> "None", id |-> 0]

\* bool(x): a dict of 81 keys is true, False and None are not
Truthy(x) == x.kind = "dict"

\* values.copy(): a new dict object with the same items
dict_alias(h, id) == [heap |-> h, id |-> id]

dict_copy(h, id) == [heap |-> Append(h, h[id]), id |-> Len(h) + 1]

(***************************************************************************)
(* The grids solve is run on: the grid of the main block, and that grid    *)
(* with one box of row B overwritten or with the last character missing.   *)
(***************************************************************************)
KnownInstance ==
    <<"2", ".", ".", ".", ".", ".", ".", ".", ".",
      ".", ".", ".", ".", ".", "6", "2", ".", ".",
      ".", ".", "1", ".", ".", ".", ".", "7", ".",
      ".", ".", "6", ".", ".", "8", ".", ".", ".",
      "3", ".", ".", ".", "9", ".", ".", ".", "7",
      ".", ".", ".", "6", ".", ".", "4", ".", ".",
      ".", "4", ".", ".", ".", ".", "8", ".", ".",
      ".", ".", "5", "2", ".", ".", ".", ".", ".",
      ".", ".", ".", ".", ".", ".", ".", ".", "3">>

Overwrite(grid, box, char) == [grid EXCEPT ![BoxIndex(box)] = char]

\* the characters written: '.', the digits, and '0', which is neither
EditChars == {".", "0"} \cup ToSet(DIGITS)

\* the boxes overwritten: the first MaxEditBox boxes of row B
MaxEditBox == 7

Inputs ==
    {KnownInstance, SubSeq(KnownInstance, 1, GridLen - 1)}
        \cup {Overwrite(KnownInstance, RUNITS[2][i], c) :
                i \in {j \in 1..MaxEditBox : j <= Len(RUNITS[2])},
                c \in EditChars}

VARIABLES
    grid,         \* the argument of solve
    heap,         \* the dict objects, by identity
    stack,        \* the frames of search, innermost last
    pc,           \* where the innermost frame stands
    assignments,  \* the global list of snapshots
    ret           \* the value being returned, and at "done" the result of solve

vars == <<grid, heap, stack, pc, assignments, ret>>

\* a frame of search: its dict (or False once reduce_puzzle returned it),
\* solved_values_before, and the box and the position of the for loop
Frame(v) == [values |-> v, before |-> 0, box |-> "", iter |-> << >>, k |-> 0]

Top == stack[Len(stack)]
SetTop(f) == [stack EXCEPT ![Len(stack)] = f]
Cur == [values |-> heap[Top.values.id], log |-> assignments]

Init ==
    /\ grid \in Inputs
    /\ heap = << >>
    /\ stack = << >>
    /\ pc = "solve"
    /\ assignments = EmptyList
    /\ ret = None

\* solve, lines 237-239: the grid is parsed and search is called on it
Solve ==
    /\ pc = "solve"
    /\ GridAccepted(grid)
    /\ heap' = <<grid_values(grid)>>
    /\ stack' = <<Frame(Dict(1))>>
    /\ pc' = "eliminate"
    /\ UNCHANGED <<grid, assignments, ret>>

\* grid_values, lines 102-103: an assert fails and solve raises
SolveRejects ==
    /\ pc = "solve"
    /\ ~GridAccepted(grid)
    /\ pc' = "error"
    /\ UNCHANGED <<grid, heap, stack, assignments, ret>>

\* reduce_puzzle, lines 179-182: count the solved boxes, then eliminate
Eliminate ==
    /\ pc = "eliminate"
    /\ LET st == eliminate(Cur)
       IN  /\ heap' = [heap EXCEPT ![Top.values.id] = st.values]
           /\ assignments' = st.log
    /\ stack' = SetTop([Top EXCEPT !.before = CountLen(heap[Top.values.id], 1)])
    /\ pc' = "only_choice"
    /\ UNCHANGED <<grid, ret>>

\* reduce_puzzle, line 185
OnlyChoice ==
    /\ pc = "only_choice"
    /\ LET st == only_choice(Cur)
       IN  /\ heap' = [heap EXCEPT ![Top.values.id] = st.values]
           /\ assignments' = st.log
    /\ pc' = "naked_twins"
    /\ UNCHANGED <<grid, stack, ret>>

\* reduce_puzzle, line 188
NakedTwins ==
    /\ pc = "naked_twins"
    /\ LET st == naked_twins(Cur)
       IN  /\ heap' = [heap EXCEPT ![Top.values.id] = st.values]
           /\ assignments' = st.log
    /\ pc' = "stalled"
    /\ UNCHANGED <<grid, stack, ret>>

\* reduce_puzzle, lines 191-200: stalled, the sanity check, and the loop
\* test; reduce_puzzle returns to line 205 of search
Stalled ==
    /\ pc = "stalled"
    /\ LET values == heap[Top.values.id]
           stalled == Top.before = CountLen(values, 1)
       IN  IF SanityFails(values)
           THEN /\ stack' = SetTop([Top EXCEPT !.values = False])
                /\ pc' = "search"
           ELSE IF stalled
           THEN /\ stack' = stack
                /\ pc' = "search"
           ELSE /\ stack' = stack
                /\ pc' = "eliminate"
    /\ UNCHANGED <<grid, heap, assignments, ret>>

\* min(free): the fewest digits first, then the box name; the names of
\* BOXES are in increasing order.
MinFree(values) ==
    LET free == SelectSeq(BOXES, LAMBDA b : Len(values[b]) > 1)
        n == CHOOSE m \in {Len(values[free[i]]) : i \in 1..Len(free)} :
                \A i \in 1..Len(free) : m <= Len(values[free[i]])
    IN  SelectSeq(free, LAMBDA b : Len(values[b]) = n)[1]

\* search, lines 207-216
Search ==
    /\ pc = "search"
    /\ IF Top.values = False
       THEN /\ ret' = False
            /\ pc' = "return"
            /\ stack' = stack
       ELSE LET values == heap[Top.values.id]
            IN  IF \A b \in BoxSet : Len(values[b]) <= 1
                THEN /\ ret' = Top.values
                     /\ pc' = "return"
                     /\ stack' = stack
                ELSE LET box == MinFree(values)
                     IN  /\ stack' = SetTop([Top EXCEPT !.box = box,
                                                       !.iter = values[box],
                                                       !.k = 1])
                         /\ pc' = "loop"
                         /\ ret' = ret
    /\ UNCHANGED <<grid, heap, assignments>>

\* line 219: `for value in values[box]` has no value left
IterDoneAfterFirst(f) == f.k > 1

IterDone(f) == f.k > Len(f.iter)

\* search, lines 219-222: the next value of the box is tried on a copy
Branch ==
    /\ pc = "loop"
    /\ ~IterDone(Top)
    /\ LET c == dict_copy(heap, Top.values.id)
           st == assign_value([values |-> c.heap[c.id], log |-> assignments],
                              Top.box, <<Top.iter[Top.k]>>)
       IN  /\ heap' = [c.heap EXCEPT ![c.id] = st.values]
           /\ assignments' = st.log
           /\ stack' = Append(SetTop([Top EXCEPT !.k = Top.k + 1]),
                              Frame(Dict(c.id)))
    /\ pc' = "eliminate"
    /\ UNCHANGED <<grid, ret>>

\* search, line 219 when the values are exhausted: the function ends
\* without a return statement
Exhausted ==
    /\ pc = "loop"
    /\ IterDone(Top)
    /\ ret' = None
    /\ pc' = "return"
    /\ UNCHANGED <<grid, heap, stack, assignments>>

\* a return of search: to solve (line 239), or to the loop of the calling
\* search (lines 222-225)
Return ==
    /\ pc = "return"
    /\ stack' = SubSeq(stack, 1, Len(stack) - 1)
    /\ pc' = IF Len(stack) = 1 THEN "done"
             ELSE IF Truthy(ret) THEN "return" ELSE "loop"
    /\ UNCHANGED <<grid, heap, assignments, ret>>

Next ==
    \/ Solve
    \/ SolveRejects
    \/ Eliminate
    \/ OnlyChoice
    \/ NakedTwins
    \/ Stalled
    \/ Search
    \/ Branch
    \/ Exhausted
    \/ Return

Spec == Init /\ [][Next]_vars

(***************************************************************************)
(* Properties                                                              *)
(***************************************************************************)
\* the dict the innermost frame works on, before and after a step
Running == heap[Top.values.id]
RunningNext == heap'[Top.values.id]

\* every box holds one digit and every unit holds every digit once
Solved(values) ==
    /\ \A b \in BoxSet : Len(values[b]) = 1
    /\ \A u \in 1..Len(UNITLIST) : \A k \in 1..Len(DIGITS) :
          Cardinality({b \in ToSet(UNITLIST[u]) : values[b] = <<DIGITS[k]>>}) = 1

\* C1: whenever search, and so solve, returns a grid, each of the 81 boxes
\* holds exactly one digit and each of the 29 units (2 diagonals, 9 squares,
\* 9 rows, 9 columns, of 9 boxes each) holds each digit 1..9 exactly once.
C1_SolvedUnitsValid ==
    /\ Len(UNITLIST) = 29
    /\ \A u \in 1..Len(UNITLIST) : Cardinality(ToSet(UNITLIST[u])) = 9
    /\ (pc \in {"return", "done"} /\ Truthy(ret)) => Solved(heap[ret.id])

\* solve returned a grid that search reached by branching
C1_Witness ==
    /\ pc = "done"
    /\ Truthy(ret)
    /\ Len(heap) > 1
    /\ Solved(heap[ret.id])

\* s is a full grid satisfying all the units and agreeing with the clues of g
CompletionOf(s, g) ==
    /\ Len(s) = GridLen
    /\ Len(g) = GridLen
    /\ \A u \in 1..Len(UNITLIST) :
          {s[BoxIndex(b)] : b \in ToSet(UNITLIST[u])} = ToSet(DIGITS)
    /\ \A k \in 1..GridLen : g[k] = "." \/ g[k] = s[k]

\* full grids; CompletionOf decides whether one of them completes a given
\* grid.  Every grid of Inputs that has a completion has one of these.
KnownCompletions ==
    {<<"2", "6", "7", "9", "4", "5", "3", "8", "1",
       "8", "5", "3", "7", "1", "6", "2", "4", "9",
       "4", "9", "1", "8", "2", "3", "5", "7", "6",
       "5", "7", "6", "4", "3", "8", "1", "9", "2",
       "3", "8", "4", "1", "9", "2", "6", "5", "7",
       "1", "2", "9", "6", "5", "7", "4", "3", "8",
       "6", "4", "2", "3", "7", "9", "8", "1", "5",
       "9", "3", "5", "2", "8", "1", "7", "6", "4",
       "7", "1", "8", "5", "6", "4", "9", "2", "3">>,
     <<"2", "6", "3", "7", "4", "9", "1", "8", "5",
       "7", "5", "8", "1", "2", "6", "3", "4", "9",
       "4", "9", "1", "3", "8", "5", "2", "7", "6",
       "9", "7", "6", "4", "1", "8", "5", "3", "2",
       "3", "8", "4", "5", "9", "2", "6", "1", "7",
       "5", "1", "2", "6", "3", "7", "4", "9", "8",
       "6", "4", "7", "9", "5", "3", "8", "2", "1",
       "8", "3", "5", "2", "7", "1", "9", "6", "4",
       "1", "2", "9", "8", "6", "4", "7", "5", "3">>,
     <<"2", "5", "7", "8", "1", "6", "3", "9", "4",
       "4", "6", "3", "9", "5", "7", "2", "1", "8",
       "8", "9", "1", "4", "2", "3", "5", "7", "6",
       "5", "2", "6", "7", "4", "8", "1", "3", "9",
       "3", "8", "4", "1", "9", "2", "6", "5", "7",
       "1", "7", "9", "6", "3", "5", "4", "8", "2",
       "9", "4", "2", "3", "7", "1", "8", "6", "5",
       "6", "3", "5", "2", "8", "9", "7", "4", "1",
       "7", "1", "8", "5", "6", "4", "9", "2", "3">>,
     <<"2", "6", "7", "8", "5", "4", "3", "9", "1",
       "8", "5", "3", "7", "1", "9", "2", "4", "6",
       "4", "9", "1", "3", "6", "2", "5", "7", "8",
       "5", "7", "6", "4", "2", "8", "1", "3", "9",
       "3", "2", "4", "1", "9", "5", "6", "8", "7",
       "1", "8", "9", "6", "3", "7", "4", "5", "2",
       "6", "4", "2", "9", "7", "3", "8", "1", "5",
       "9", "3", "5", "2", "8", "1", "7", "6", "4",
       "7", "1", "8", "5", "4", "6", "9", "2", "3">>,
     <<"2", "6", "7", "8", "5", "4", "3", "9", "1",
       "8", "5", "3", "9", "7", "1", "2", "4", "6",
       "4", "9", "1", "3", "6", "2", "5", "7", "8",
       "5", "7", "6", "4", "3", "8", "9", "1", "2",
       "3", "2", "4", "1", "9", "5", "6", "8", "7",
       "9", "1", "8", "6", "2", "7", "4", "3", "5",
       "6", "4", "2", "7", "1", "3", "8", "5", "9",
       "1", "3", "5", "2", "8", "9", "7", "6", "4",
       "7", "8", "9", "5", "4", "6", "1", "2", "3">>,
     <<"2", "6", "7", "9", "4", "5", "3", "8", "1",
       "8", "5", "3", "7", "1", "6", "9", "4", "2",
       "4", "9", "1", "8", "2", "3", "5", "7", "6",
       "5", "7", "6", "4", "3", "8", "1", "2", "9",
       "3", "8", "4", "1", "9", "2", "6", "5", "7",
       "1", "2", "9", "6", "5", "7", "4", "3", "8",
       "6", "4", "2", "3", "7", "9", "8", "1", "5",
       "9", "3", "5", "2", "8", "1", "7", "6", "4",
       "7", "1", "8", "5", "6", "4", "2", "9", "3">>,
     <<"2", "6", "8", "5", "1", "7", "3", "9", "4",
       "4", "7", "3", "9", "2", "6", "1", "5", "8",
       "5", "9", "1", "8", "4", "3", "2", "7", "6",
       "7", "2", "6", "4", "3", "8", "9", "1", "5",
       "3", "5", "4", "1", "9", "2", "6", "8", "7",
       "8", "1", "9", "6", "7", "5", "4", "3", "2",
       "6", "4", "7", "3", "5", "1", "8", "2", "9",
       "9", "3", "5", "2", "8", "4", "7", "6", "1",
       "1", "8", "2", "7", "6", "9", "5", "4", "3">>}

HasKnownCompletion(g) == \E s \in KnownCompletions : CompletionOf(s, g)

\* C2: the search is exhaustive: for a grid that has a completion
\* satisfying all 29 units and agreeing with the clues, solve returns a
\* grid; it reports no solution only when there is no completion.
C2_Exhaustive ==
    (pc = "done" /\ HasKnownCompletion(grid)) => Truthy(ret)

\* a grid with a completion is being returned after an earlier branch of
\* the search was abandoned (more dicts were made than frames are live)
C2_Witness ==
    /\ pc = "return"
    /\ Truthy(ret)
    /\ HasKnownCompletion(grid)
    /\ Len(heap) > Len(stack)

\* C3: when solve does not return a grid (no solution exists), the value it
\* returns is False, whether the contradiction is found by the first
\* propagation or after every branch at a decision point has failed.
C3_NoSolutionIsFalse ==
    (pc = "done" /\ ~Truthy(ret)) => ret = False

\* two clue boxes of one unit carry the same digit
DupClue(g) ==
    \E k1, k2 \in 1..Len(g) :
        /\ k1 # k2
        /\ g[k1] # "."
        /\ g[k1] = g[k2]
        /\ \E u \in 1..Len(UNITLIST) :
              In(BOXES[k1], UNITLIST[u]) /\ In(BOXES[k2], UNITLIST[u])

\* C4: on a grid in which two clue boxes of the same unit carry the same
\* digit, solve terminates and yields a no-solution result: it does not
\* raise, the first pass of reduce_puzzle already leaves an empty value, so
\* that the loop is left at its first sanity check and search never
\* branches, and solve returns False.
C4_DuplicateCluesFail ==
    (GridAccepted(grid) /\ DupClue(grid)) =>
        /\ pc \notin {"error", "loop"}
        /\ Len(stack) <= 1
        /\ Len(heap) <= 1
        /\ pc = "stalled" => SanityFails(Running)
        /\ pc = "done" => ret = False

\* solve has returned False on a grid with a duplicated clue
C4_Witness ==
    /\ pc = "done"
    /\ GridAccepted(grid)
    /\ DupClue(grid)
    /\ ret = False

\* C5: fixpoint idempotence: when reduce_puzzle returns a grid G as stalled
\* (not False), reduce_puzzle applied to G again returns a grid whose every
\* box has the value it has in G.
C5_FixpointIdempotent ==
    (pc = "search" /\ Top.values # False) =>
        LET again == reduce_puzzle(Cur)
        IN  again.result = "values" /\ again.values = Running

\* the boxes of a unit that have digit d in their value
HoldersOf(values, unit, d) == {b \in ToSet(unit) : In(d, values[b])}

\* C6: for every unit and digit d, if on entry to only_choice exactly one
\* box of the unit has d in its value, then after only_choice returns the
\* value of that box is exactly d.
C6_OnlyChoiceForces ==
    [][pc = "only_choice" =>
        \A u \in 1..Len(UNITLIST) : \A k \in 1..Len(DIGITS) :
            \A c \in HoldersOf(Running, UNITLIST[u], DIGITS[k]) :
                HoldersOf(Running, UNITLIST[u], DIGITS[k]) = {c}
                    => RunningNext[c] = <<DIGITS[k]>>]_vars

\* C6 as amended: in that case the value of the box after only_choice is a
\* single digit of its entry value: d, or else a digit d2 # d to which the
\* box was forced because it is the only box with d2 in one of its units.
C6_OnlyChoiceForcesOne ==
    [][pc = "only_choice" =>
        \A u \in 1..Len(UNITLIST) : \A k \in 1..Len(DIGITS) :
            \A c \in HoldersOf(Running, UNITLIST[u], DIGITS[k]) :
                HoldersOf(Running, UNITLIST[u], DIGITS[k]) = {c} =>
                    \/ RunningNext[c] = <<DIGITS[k]>>
                    \/ \E k2 \in 1..Len(DIGITS) :
                          /\ k2 # k
                          /\ In(DIGITS[k2], Running[c])
                          /\ RunningNext[c] = <<DIGITS[k2]>>
                          /\ \E u2 \in 1..Len(UNITLIST) :
                                HoldersOf(RunningNext, UNITLIST[u2], DIGITS[k2])
                                    = {c}]_vars

\* only_choice is about to run on a grid where box c is the only box of a
\* unit with d, has more digits than d, and is forced to another digit
C6_Witness ==
    /\ pc = "only_choice"
    /\ \E u \in 1..Len(UNITLIST) : \E k \in 1..Len(DIGITS) :
        \E c \in HoldersOf(Running, UNITLIST[u], DIGITS[k]) :
          /\ HoldersOf(Running, UNITLIST[u], DIGITS[k]) = {c}
          /\ Len(Running[c]) > 1
          /\ Len(only_choice(Cur).values[c]) = 1
          /\ only_choice(Cur).values[c] # <<DIGITS[k]>>

\* the boxes of a unit that naked_twins may remove digits from
NonTwins(values, unit) ==
    {x \in ToSet(unit) :
        Len(values[x]) > 1 /\ ToSet(values[x]) \notin Twins(values, unit)}

\* C7: for every unit, if on entry to naked_twins exactly two boxes of the
\* unit have the same two-digit value {a, b}, then after naked_twins returns
\* every other box of the unit whose entry value has more than one digit and
\* is not itself a twin pair contains neither a nor b.
C7_NakedTwinsOnEntry ==
    [][pc = "naked_twins" =>
        \A u \in 1..Len(UNITLIST) :
            \A x \in NonTwins(Running, UNITLIST[u]) :
                ToSet(RunningNext[x]) \cap UNION Twins(Running, UNITLIST[u]) = {}]_vars

\* the dict when naked_twins reaches unit u: the units before it are done
ReachedUnit(u) ==
    Loop(LAMBDA s, v : NakedTwinsUnit(s, UNITLIST[v]),
         [values |-> Running, log |-> EmptyList], 1, u - 1).values

\* C7 as amended: the twins and the other boxes are taken when naked_twins
\* reaches the unit, the units before it in UNITLIST already processed in
\* place; after naked_twins returns those other boxes contain no twin digit.
C7_NakedTwinsAtUnit ==
    [][pc = "naked_twins" =>
        \A u \in 1..Len(UNITLIST) :
            \A x \in NonTwins(ReachedUnit(u), UNITLIST[u]) :
                ToSet(RunningNext[x])
                    \cap UNION Twins(ReachedUnit(u), UNITLIST[u]) = {}]_vars

\* naked_twins is about to run on a grid where it reaches a unit that has
\* twins and a box that loses a twin digit
C7_Witness ==
    /\ pc = "naked_twins"
    /\ \E u \in 1..Len(UNITLIST) :
          \E x \in NonTwins(ReachedUnit(u), UNITLIST[u]) :
              /\ Twins(ReachedUnit(u), UNITLIST[u]) # {}
              /\ ToSet(ReachedUnit(u)[x])
                    \cap UNION Twins(ReachedUnit(u), UNITLIST[u]) # {}
              /\ ToSet(naked_twins(Cur).values[x])
                    \cap UNION Twins(ReachedUnit(u), UNITLIST[u]) = {}

\* C8: branch isolation: each candidate digit is tried on its own clone; a
\* step changes no dict but the one of the innermost frame (the clone of
\* the branch being tried), so neither the grid of a calling search nor the
\* grid of a sibling branch changes, and the frames never share a dict.
C8_BranchIsolation ==
    [][/\ \A i \in 1..Len(heap) :
            (pc = "loop" \/ stack = << >> \/ i # Top.values.id)
                => heap'[i] = heap[i]
       /\ \A i, j \in 1..Len(stack') :
            (i # j /\ Truthy(stack'[i].values) /\ Truthy(stack'[j].values))
                => stack'[i].values.id # stack'[j].values.id]_vars

\* a branch has failed and the calling search is back at its loop, the
\* value of the box it branches on still the string it iterates over
C8_Witness ==
    /\ pc = "loop"
    /\ Top.k > 1
    /\ Len(heap) > Len(stack)
    /\ heap[Top.values.id][Top.box] = Top.iter

\* the number of boxes whose value becomes a single digit
Became(before, after) ==
    Cardinality({b \in BoxSet : Len(before[b]) # 1 /\ Len(after[b]) = 1})

\* C9: a snapshot is appended to assignments exactly when the value of a
\* box becomes a single digit: a step appends as many snapshots as boxes
\* changed from a value that is not a single digit to one that is.
C9_LogExactlyOnSingleton ==
    [][assignments'.len - assignments.len =
        IF pc \in {"eliminate", "only_choice", "naked_twins"}
        THEN Became(Running, RunningNext)
        ELSE IF pc = "loop" /\ ~IterDone(Top)
        THEN Became(Running, heap'[Len(heap')])
        ELSE 0]_vars

\* every value of a is made of digits of the value b has for the same box
Within(a, b) == \A x \in BoxSet : ToSet(a[x]) \subseteq ToSet(b[x])

\* C10: domains only shrink: every dict of the search has, for every box,
\* a value within the value of the parsed grid; a step never adds a digit
\* to a value (an empty value stays empty); and in a grid that solve
\* returns every clue box holds its clue.
C10_DomainsOnlyShrink ==
    /\ [](\A i \in 1..Len(heap) : Within(heap[i], grid_values(grid)))
    /\ []((pc = "done" /\ Truthy(ret)) =>
            \A k \in 1..GridLen :
                grid[k] # "." => heap[ret.id][BOXES[k]] = <<grid[k]>>)
    /\ [][\A i \in 1..Len(heap) : Within(heap'[i], heap[i])]_vars

\* deep in the search, a value is empty in a dict and the clue boxes of
\* the running dict still hold their clues
C10_Witness ==
    /\ pc = "search"
    /\ Len(stack) >= 2
    /\ \E i \in 1..Len(heap) : \E b \in BoxSet : heap[i][b] = << >>
    /\ \A k \in 1..GridLen :
          grid[k] # "." => ToSet(heap[1][BOXES[k]]) \subseteq {grid[k]}

====
